---- MODULE Spec2Model ----
(***************************************************************************)
(* A model of pngme's chunk core: ChunkType (src/src/chunk_type.rs) and    *)
(* Chunk (src/src/chunk.rs).                                               *)
(*                                                                         *)
(* Bytes are integers 0..255 and byte slices / Vec<u8> are sequences.      *)
(* A u32 is a record [hi, lo] of two 16-bit halves, value hi * 65536 + lo: *)
(* the model checker's integers are 32-bit signed, so a u32 does not fit   *)
(* one integer.  A Result is [ok |-> TRUE, val |-> v] or                   *)
(* [ok |-> FALSE, err |-> e].                                              *)
(***************************************************************************)
EXTENDS Integers, Sequences, FiniteSets, TLC

VARIABLES
    tin,      \* the input of the last ChunkType construction
    tres,     \* its Result<ChunkType, ChunkTypeError>
    flags,    \* the answers of the five queries on the ChunkType held in tres
    pc,       \* where the chunk session stands
    chunk,    \* the Chunk built by Chunk::new
    buf,      \* the byte buffer handed to Chunk::try_from
    src,      \* where buf comes from: serialized, raw, truncated, tampered
    res,      \* the Result<Chunk, ChunkError> of the last Chunk::try_from(buf)
    out,      \* as_bytes() of the decoded chunk
    flipped   \* the 1-based index of the byte of buf a bit was flipped in

vars == <<tin, tres, flags, pc, chunk, buf, src, res, out, flipped>>

typeVars == <<tin, tres, flags>>

chunkVars == <<pc, chunk, buf, src, res, out, flipped>>

----------------------------------------------------------------------------
(* Bounds of the model. *)

\* The longest payload a chunk is built or loaded with.
MaxData == 2

\* The longest string handed to ChunkType::from_str.
MaxStrLen == 5

----------------------------------------------------------------------------
(* Results and absent values. *)

Ok(v) == [ok |-> TRUE, val |-> v]

Err(e) == [ok |-> FALSE, err |-> e]

None == [none |-> TRUE]

Byte == 0..255

----------------------------------------------------------------------------
(* Bit operations on bytes, and u32 arithmetic on 16-bit halves. *)

RECURSIVE BitXor(_, _, _)
\* a ^ b on the low n bits.
BitXor(a, b, n) ==
    IF n = 0 THEN 0
    ELSE ((a + b) % 2) + 2 * BitXor(a \div 2, b \div 2, n - 1)

RECURSIVE BitAnd(_, _, _)
\* a & b on the low n bits.
BitAnd(a, b, n) ==
    IF n = 0 THEN 0
    ELSE ((a % 2) * (b % 2)) + 2 * BitAnd(a \div 2, b \div 2, n - 1)

\* u8 ^ u8, tabulated once.
XorTab == [a \in Byte |-> [b \in Byte |-> BitXor(a, b, 8)]]

Xor8(a, b) == XorTab[a][b]

Xor16(a, b) ==
    Xor8(a \div 256, b \div 256) * 256 + Xor8(a % 256, b % 256)

U32Xor(x, y) == [hi |-> Xor16(x.hi, y.hi), lo |-> Xor16(x.lo, y.lo)]

\* !x
U32Not(x) == [hi |-> 65535 - x.hi, lo |-> 65535 - x.lo]

\* x >> 1
U32Shr1(x) == [hi |-> x.hi \div 2, lo |-> (x.lo \div 2) + (x.hi % 2) * 32768]

\* x >> 8
U32Shr8(x) == [hi |-> x.hi \div 256, lo |-> (x.lo \div 256) + (x.hi % 256) * 256]

\* u32::from_be_bytes
from_be_bytes(b) == [hi |-> b[1] * 256 + b[2], lo |-> b[3] * 256 + b[4]]

\* u32::to_be_bytes
to_be_bytes(x) == <<x.hi \div 256, x.hi % 256, x.lo \div 256, x.lo % 256>>

\* u32::try_from(usize): fails above u32::MAX.
u32_try_from(n) ==
    IF n \div 65536 > 65535 THEN Err([kind |-> "TryFromIntError"])
    ELSE Ok([hi |-> n \div 65536, lo |-> n % 65536])

----------------------------------------------------------------------------
(* crc::crc32::checksum_ieee, table driven as in the crc crate: the IEEE   *)
(* polynomial 0xEDB88320, reflected.                                       *)

IEEE == [hi |-> 60856, lo |-> 33568]

RECURSIVE make_entry(_, _)
make_entry(value, n) ==
    IF n = 0 THEN value
    ELSE make_entry(IF value.lo % 2 = 1 THEN U32Xor(U32Shr1(value), IEEE)
                    ELSE U32Shr1(value), n - 1)

IEEE_TABLE == [i \in Byte |-> make_entry([hi |-> 0, lo |-> i], 8)]

RECURSIVE crc_update(_, _, _)
crc_update(value, bytes, i) ==
    IF i > Len(bytes) THEN value
    ELSE crc_update(U32Xor(IEEE_TABLE[Xor8(value.lo % 256, bytes[i])],
                           U32Shr8(value)), bytes, i + 1)

checksum_ieee(bytes) ==
    U32Not(crc_update(U32Not([hi |-> 0, lo |-> 0]), bytes, 1))

----------------------------------------------------------------------------
(* ChunkType *)

\* lower = 65u8..=90, upper = 97u8..=122; the test of the two loops.
not_a_letter(byte) ==
    /\ ~(65 <= byte /\ byte <= 90)
    /\ ~(97 <= byte /\ byte <= 122)

RECURSIVE first_bad(_, _)
\* The loop over value.iter(): the index of the first byte that fails the
\* range test, 0 when none does.
first_bad(value, i) ==
    IF i > Len(value) THEN 0
    ELSE IF not_a_letter(value[i]) THEN i
    ELSE first_bad(value, i + 1)

\* impl TryFrom<[u8; 4]> for ChunkType
ChunkType_try_from(value) ==
    LET i == first_bad(value, 1) IN
    IF i # 0 THEN Err([kind |-> "InvalidByte", byte |-> value[i]])
    ELSE Ok([bytes |-> value])

\* from_str with the length test `s.len() < 4`.
from_str_short_only(s) ==
    IF Len(s) < 4 THEN Err([kind |-> "InvalidLength"])
    ELSE ChunkType_try_from(<<s[1], s[2], s[3], s[4]>>)

\* impl FromStr for ChunkType; s is the string's bytes.
ChunkType_from_str(s) ==
    IF Len(s) # 4 THEN Err([kind |-> "InvalidLength"])
    ELSE ChunkType_try_from(<<s[1], s[2], s[3], s[4]>>)

\* is_valid without the loop over the bytes.
is_valid_reserved_only(self) ==
    IF BitAnd(self.bytes[3], 32, 8) = 32 THEN FALSE
    ELSE TRUE

is_valid(self) ==
    IF first_bad(self.bytes, 1) # 0 THEN FALSE
    ELSE IF BitAnd(self.bytes[3], 32, 8) = 32 THEN FALSE
    ELSE TRUE

is_critical(self) == BitAnd(self.bytes[1], 32, 8) = 0

\* is_public reading bytes[0].
is_public_first_byte(self) == BitAnd(self.bytes[1], 32, 8) = 0

is_public(self) == BitAnd(self.bytes[2], 32, 8) = 0

is_reserved_bit_valid(self) == BitAnd(self.bytes[3], 32, 8) = 0

is_safe_to_copy(self) == BitAnd(self.bytes[4], 32, 8) = 32

----------------------------------------------------------------------------
(* Chunk *)

\* Chunk::new with the CRC taken over the payload alone.
Chunk_new_crc_of_data(chunk_type, data) ==
    LET length == u32_try_from(Len(data)) IN
    IF ~length.ok THEN length
    ELSE Ok([length |-> length.val,
             chunk_type |-> chunk_type,
             data |-> data,
             crc |-> checksum_ieee(data)])

\* Chunk::new
Chunk_new(chunk_type, data) ==
    LET length == u32_try_from(Len(data)) IN
    IF ~length.ok THEN length
    ELSE Ok([length |-> length.val,
             chunk_type |-> chunk_type,
             data |-> data,
             crc |-> checksum_ieee(chunk_type.bytes \o data)])

\* try_from with the length test `total_length < 11`.
try_from_min_11(bytes) ==
    LET total_length == Len(bytes) IN
    IF total_length < 11 THEN Err([kind |-> "ChunkTooShort"])
    ELSE
    LET length == from_be_bytes(SubSeq(bytes, 1, 4))
        chunk_type == ChunkType_try_from(SubSeq(bytes, 5, 8))
        crc == from_be_bytes(SubSeq(bytes, total_length - 3, total_length))
        data == SubSeq(bytes, 9, total_length - 4)
    IN
    IF ~chunk_type.ok
    THEN Err([kind |-> "ChunkTypeError", source |-> chunk_type.err])
    ELSE
    LET computed_crc == checksum_ieee(chunk_type.val.bytes \o data) IN
    IF computed_crc # crc
    THEN Err([kind |-> "InvalidCRC", found |-> computed_crc, expected |-> crc])
    ELSE Ok([length |-> length,
             chunk_type |-> chunk_type.val,
             data |-> data,
             crc |-> crc])

\* try_from without the comparison of the two CRCs.
try_from_no_crc_check(bytes) ==
    LET total_length == Len(bytes) IN
    IF total_length < 12 THEN Err([kind |-> "ChunkTooShort"])
    ELSE
    LET length == from_be_bytes(SubSeq(bytes, 1, 4))
        chunk_type == ChunkType_try_from(SubSeq(bytes, 5, 8))
        crc == from_be_bytes(SubSeq(bytes, total_length - 3, total_length))
        data == SubSeq(bytes, 9, total_length - 4)
    IN
    IF ~chunk_type.ok
    THEN Err([kind |-> "ChunkTypeError", source |-> chunk_type.err])
    ELSE Ok([length |-> length,
             chunk_type |-> chunk_type.val,
             data |-> data,
             crc |-> crc])

\* try_from with the CRC compared before the chunk type is validated.
try_from_crc_first(bytes) ==
    LET total_length == Len(bytes) IN
    IF total_length < 12 THEN Err([kind |-> "ChunkTooShort"])
    ELSE
    LET length == from_be_bytes(SubSeq(bytes, 1, 4))
        chunk_type == ChunkType_try_from(SubSeq(bytes, 5, 8))
        crc == from_be_bytes(SubSeq(bytes, total_length - 3, total_length))
        data == SubSeq(bytes, 9, total_length - 4)
        computed_crc == checksum_ieee(SubSeq(bytes, 5, 8) \o data)
    IN
    IF computed_crc # crc
    THEN Err([kind |-> "InvalidCRC", found |-> computed_crc, expected |-> crc])
    ELSE IF ~chunk_type.ok
    THEN Err([kind |-> "ChunkTypeError", source |-> chunk_type.err])
    ELSE Ok([length |-> length,
             chunk_type |-> chunk_type.val,
             data |-> data,
             crc |-> crc])

\* impl TryFrom<&[u8]> for Chunk
Chunk_try_from(bytes) ==
    LET total_length == Len(bytes) IN
    IF total_length < 12 THEN Err([kind |-> "ChunkTooShort"])
    ELSE
    LET length == from_be_bytes(SubSeq(bytes, 1, 4))
        chunk_type == ChunkType_try_from(SubSeq(bytes, 5, 8))
        crc == from_be_bytes(SubSeq(bytes, total_length - 3, total_length))
        data == SubSeq(bytes, 9, total_length - 4)
    IN
    IF ~chunk_type.ok
    THEN Err([kind |-> "ChunkTypeError", source |-> chunk_type.err])
    ELSE
    LET computed_crc == checksum_ieee(chunk_type.val.bytes \o data) IN
    IF computed_crc # crc
    THEN Err([kind |-> "InvalidCRC", found |-> computed_crc, expected |-> crc])
    ELSE Ok([length |-> length,
             chunk_type |-> chunk_type.val,
             data |-> data,
             crc |-> crc])

\* as_bytes with the length bytes in little-endian order.
as_bytes_le_length(self) ==
    <<self.length.lo % 256, self.length.lo \div 256,
      self.length.hi % 256, self.length.hi \div 256>>
        \o self.chunk_type.bytes \o self.data \o to_be_bytes(self.crc)

\* as_bytes writing the payload's size instead of the stored length.
as_bytes_data_len(self) ==
    to_be_bytes(u32_try_from(Len(self.data)).val) \o self.chunk_type.bytes
        \o self.data \o to_be_bytes(self.crc)

\* Chunk::as_bytes
as_bytes(self) ==
    to_be_bytes(self.length) \o self.chunk_type.bytes \o self.data
        \o to_be_bytes(self.crc)

----------------------------------------------------------------------------
(* Inputs. *)

RECURSIVE SeqsUpTo(_, _)
\* The sequences over S of length at most n.
SeqsUpTo(S, n) ==
    IF n = 0 THEN {<<>>}
    ELSE LET shorter == SeqsUpTo(S, n - 1) IN
         shorter \cup {Append(q, x) : q \in {r \in shorter : Len(r) = n - 1}, x \in S}

\* Bytes tried in a [u8; 4]: both ends of the two letter ranges, their
\* neighbours, and the ends of the byte range.
TagBytes == {0, 64, 65, 90, 91, 96, 97, 122, 123, 255}

TagArrays == {<<a, b, c, d>> : a \in TagBytes, b \in TagBytes,
                               c \in TagBytes, d \in TagBytes}

\* Characters of the strings tried: 'R', 's', '1'.
StrChars == {82, 115, 49}

\* The strings tried, as UTF-8 bytes: every string of at most MaxStrLen of
\* these characters, the strings of the tests, and one of two two-byte
\* characters (4 bytes, 2 chars).
Strings ==
    SeqsUpTo(StrChars, MaxStrLen)
        \cup {<<82, 117, 83, 116>>,      \* "RuSt"
              <<82, 117, 115, 116>>,     \* "Rust"
              <<82, 117, 49, 116>>,      \* "Ru1t"
              <<195, 169, 195, 169>>}

\* The strings a chunk's type is parsed from: "RuSt", "Rust", "bLOb", and
\* "Ru1t", which does not parse.
NewTypeStrings == {<<82, 117, 83, 116>>, <<82, 117, 115, 116>>,
                   <<98, 76, 79, 98>>, <<82, 117, 49, 116>>}

\* The bytes payloads are made of.
PayloadBytes == {0, 33, 255}

Payloads == SeqsUpTo(PayloadBytes, MaxData)

\* The type bytes of the raw buffers: "RuSt", "Rust", "Ru1t", and one with
\* two non-letters.
RawTags == {<<82, 117, 83, 116>>, <<82, 117, 115, 116>>,
            <<82, 117, 49, 116>>, <<82, 64, 83, 123>>}

\* The length fields of the raw buffers holding payload p: its size, one
\* more, zero, and u32::MAX.
RawLengths(p) == {[hi |-> 0, lo |-> Len(p)], [hi |-> 0, lo |-> Len(p) + 1],
                  [hi |-> 0, lo |-> 0], [hi |-> 65535, lo |-> 65535]}

\* The CRC fields of the raw buffers: the CRC-32 of type and payload, that
\* value with its lowest bit flipped, and zero.
RawCrcs(tag, p) ==
    LET c == checksum_ieee(tag \o p) IN
    {c, [hi |-> c.hi, lo |-> IF c.lo % 2 = 0 THEN c.lo + 1 ELSE c.lo - 1],
     [hi |-> 0, lo |-> 0]}

----------------------------------------------------------------------------
(* The state before anything ran. *)

Init ==
    /\ tin = None
    /\ tres = None
    /\ flags = None
    /\ pc = "idle"
    /\ chunk = None
    /\ buf = <<>>
    /\ src = "none"
    /\ res = None
    /\ out = None
    /\ flipped = 0

----------------------------------------------------------------------------
(* ChunkType operations. *)

\* ChunkType::try_from(value)
TypeTryFrom ==
    /\ tin = None
    /\ \E value \in TagArrays :
        /\ tin' = [via |-> "try_from", arg |-> value]
        /\ tres' = ChunkType_try_from(value)
    /\ UNCHANGED <<flags, chunkVars>>

\* ChunkType::from_str(s)
TypeFromStr ==
    /\ tin = None
    /\ \E s \in Strings :
        /\ tin' = [via |-> "from_str", arg |-> s]
        /\ tres' = ChunkType_from_str(s)
    /\ UNCHANGED <<flags, chunkVars>>

\* ChunkType { bytes: value }: the field is public, no check runs.
TypeLiteral ==
    /\ tin = None
    /\ \E value \in TagArrays :
        /\ tin' = [via |-> "literal", arg |-> value]
        /\ tres' = Ok([bytes |-> value])
    /\ UNCHANGED <<flags, chunkVars>>

\* The five queries on the ChunkType at hand.
TypeQuery ==
    /\ tin # None
    /\ tres.ok
    /\ flags = None
    /\ flags' = [valid |-> is_valid(tres.val),
                 critical |-> is_critical(tres.val),
                 public |-> is_public(tres.val),
                 reserved_bit_valid |-> is_reserved_bit_valid(tres.val),
                 safe_to_copy |-> is_safe_to_copy(tres.val)]
    /\ UNCHANGED <<tin, tres, chunkVars>>

NextType ==
    \/ TypeTryFrom
    \/ TypeFromStr
    \/ TypeLiteral
    \/ TypeQuery

SpecType == Init /\ [][NextType]_vars

----------------------------------------------------------------------------
(* What the claims say of a ChunkType, stated apart from the code. *)

Upper == 65..90

Lower == 97..122

IsLetter(b) == b \in Upper \cup Lower

\* Bit 5 (value 0x20) of b.
Bit5(b) == (b \div 32) % 2

AllLetters(v) == \A i \in 1..4 : IsLetter(v[i])

\* The outcome the claim gives for try_from on the 4 bytes v.
ExpectedType(v) ==
    IF AllLetters(v) THEN Ok([bytes |-> v])
    ELSE LET k == CHOOSE i \in 1..4 :
                      /\ ~IsLetter(v[i])
                      /\ \A j \in 1..(i - 1) : IsLetter(v[j])
         IN Err([kind |-> "InvalidByte", byte |-> v[k]])

\* C7: ChunkType::try_from succeeds, keeping the bytes, iff every byte is a
\* letter, and otherwise fails with InvalidByte of the first non-letter;
\* from_str fails with InvalidLength whenever the byte length is not 4, and
\* otherwise gives what try_from gives on the 4 bytes.
C7_ConstructionOutcome ==
    /\ (tin # None /\ tin.via = "try_from") =>
           tres = ExpectedType(tin.arg)
    /\ (tin # None /\ tin.via = "from_str") =>
           IF Len(tin.arg) # 4 THEN tres = Err([kind |-> "InvalidLength"])
           ELSE tres = ExpectedType(tin.arg)

\* A 5-byte string holding a non-letter was rejected for its length.
C7_Witness ==
    /\ tin # None
    /\ tin.via = "from_str"
    /\ Len(tin.arg) = 5
    /\ \E i \in 1..5 : ~IsLetter(tin.arg[i])
    /\ tres = Err([kind |-> "InvalidLength"])

\* C8: is_valid() is true iff all 4 bytes are letters and bit 5 of the third
\* byte is 0, for any 4 bytes; for a constructed ChunkType it equals
\* is_reserved_bit_valid().
C8_IsValid ==
    flags # None =>
        /\ flags.valid = (/\ AllLetters(tres.val.bytes)
                          /\ Bit5(tres.val.bytes[3]) = 0)
        /\ tin.via # "literal" => flags.valid = flags.reserved_bit_valid

\* A ChunkType written as a literal with a non-letter first byte and an
\* uppercase third letter answered false.
C8_Witness ==
    /\ flags # None
    /\ tin.via = "literal"
    /\ ~IsLetter(tres.val.bytes[1])
    /\ tres.val.bytes[3] \in Upper
    /\ ~flags.valid

\* C9: on a constructed ChunkType, is_critical() iff the first letter is
\* uppercase (bit 5 of byte 0 is 0), is_public() iff the second is,
\* is_reserved_bit_valid() iff the third is, and is_safe_to_copy() iff the
\* fourth letter is lowercase (bit 5 of byte 3 is 1).
C9_FlagQueries ==
    (flags # None /\ tin.via # "literal") =>
        LET b == tres.val.bytes IN
        /\ flags.critical = (b[1] \in Upper)
        /\ flags.critical = (Bit5(b[1]) = 0)
        /\ flags.public = (b[2] \in Upper)
        /\ flags.public = (Bit5(b[2]) = 0)
        /\ flags.reserved_bit_valid = (b[3] \in Upper)
        /\ flags.reserved_bit_valid = (Bit5(b[3]) = 0)
        /\ flags.safe_to_copy = (b[4] \in Lower)
        /\ flags.safe_to_copy = (Bit5(b[4]) = 1)

\* "RuSt" parsed from a string: critical, private, reserved bit valid, safe
\* to copy.
C9_Witness ==
    /\ flags # None
    /\ tin.via = "from_str"
    /\ tin.arg = <<82, 117, 83, 116>>
    /\ flags.critical
    /\ ~flags.public
    /\ flags.reserved_bit_valid
    /\ flags.safe_to_copy

----------------------------------------------------------------------------
(* Chunk operations. *)

\* Chunk::new(ChunkType::from_str(s)?, p)
New ==
    /\ pc = "idle"
    /\ \E s \in NewTypeStrings, p \in Payloads :
        LET t == ChunkType_from_str(s) IN
        /\ t.ok
        /\ LET c == Chunk_new(t.val, p) IN
           /\ c.ok
           /\ chunk' = c.val
    /\ pc' = "built"
    /\ UNCHANGED <<typeVars, buf, src, res, out, flipped>>

\* chunk.as_bytes(), kept as the buffer to decode.
Encode ==
    /\ pc = "built"
    /\ buf' = as_bytes(chunk)
    /\ src' = "serialized"
    /\ pc' = "loaded"
    /\ UNCHANGED <<typeVars, chunk, res, out, flipped>>

\* A buffer that comes from elsewhere: any length field, type bytes, payload
\* and CRC field, laid out as a chunk.
Load ==
    /\ pc = "idle"
    /\ \E tag \in RawTags, p \in Payloads :
        \E len \in RawLengths(p), c \in RawCrcs(tag, p) :
            buf' = to_be_bytes(len) \o tag \o p \o to_be_bytes(c)
    /\ src' = "raw"
    /\ pc' = "loaded"
    /\ UNCHANGED <<typeVars, chunk, res, out, flipped>>

\* The buffer cut short: only its first n bytes arrive.
Truncate ==
    /\ pc = "loaded"
    /\ src \in {"serialized", "raw"}
    /\ \E n \in 0..(Len(buf) - 1) : buf' = SubSeq(buf, 1, n)
    /\ src' = "truncated"
    /\ UNCHANGED <<typeVars, pc, chunk, res, out, flipped>>

\* Chunk::try_from(buf)
Decode ==
    /\ pc \in {"loaded", "tampered"}
    /\ res' = Chunk_try_from(buf)
    /\ pc' = IF pc = "loaded" THEN "decoded" ELSE "redecoded"
    /\ UNCHANGED <<typeVars, chunk, buf, src, out, flipped>>

\* as_bytes() of the chunk try_from returned.
ReEncode ==
    /\ pc = "decoded"
    /\ res.ok
    /\ out' = as_bytes(res.val)
    /\ pc' = "reencoded"
    /\ UNCHANGED <<typeVars, chunk, buf, src, res, flipped>>

\* One bit of a buffer that decoded is flipped, anywhere in it.
FlipBit ==
    /\ pc = "decoded"
    /\ res.ok
    /\ \E i \in 1..Len(buf), k \in 0..7 :
        /\ buf' = [buf EXCEPT ![i] = Xor8(@, 2 ^ k)]
        /\ flipped' = i
    /\ src' = "tampered"
    /\ pc' = "tampered"
    /\ UNCHANGED <<typeVars, chunk, res, out>>

Next ==
    \/ New
    \/ Encode
    \/ Load
    \/ Truncate
    \/ Decode
    \/ ReEncode
    \/ FlipBit

Spec == Init /\ [][Next]_vars

----------------------------------------------------------------------------
(* What the claims say of a Chunk, stated apart from the code. *)

\* The u32 whose value is the natural number n.
U32Of(n) == [hi |-> n \div 65536, lo |-> n % 65536]

\* The u32 written big-endian in the 4 bytes b.
BigEndian(b) == [hi |-> 256 * b[1] + b[2], lo |-> 256 * b[3] + b[4]]

\* res is the outcome of try_from on the buffer as it stands.
Decoded == pc \in {"decoded", "reencoded", "redecoded"}

\* The byte flipped lies in the type-tag region (bytes 4..8, here 5..8).
FlippedInType == flipped \in 5..8

\* The byte flipped lies in the payload region (bytes 8..len-4).
FlippedInPayload == flipped \in 9..(Len(buf) - 4)

\* C1: decoding the bytes of a chunk built by Chunk::new succeeds and gives
\* a chunk with the same length, chunk_type, data and crc.
C1_RoundTrip ==
    (pc = "decoded" /\ src = "serialized") =>
        /\ res.ok
        /\ res.val.length = chunk.length
        /\ res.val.chunk_type = chunk.chunk_type
        /\ res.val.data = chunk.data
        /\ res.val.crc = chunk.crc

\* A built chunk with a payload was serialized and decoded again.
C1_Witness ==
    /\ pc = "decoded"
    /\ src = "serialized"
    /\ Len(chunk.data) > 0
    /\ res.ok
    /\ res.val.data = chunk.data

\* C2: every Chunk, built by Chunk::new or returned by Chunk::try_from, has
\* length() equal to the number of bytes of data().
C2_LengthInvariant ==
    /\ chunk # None => chunk.length = U32Of(Len(chunk.data))
    /\ (Decoded /\ res.ok) => res.val.length = U32Of(Len(res.val.data))

\* C3: every Chunk, built or decoded, has crc() equal to the CRC-32 of its
\* type bytes followed by its data; for a decoded one that is the CRC-32 of
\* the buffer without its first 4 and last 4 bytes, whatever the length
\* field holds.
C3_CrcInvariant ==
    /\ chunk # None =>
           chunk.crc = checksum_ieee(chunk.chunk_type.bytes \o chunk.data)
    /\ (Decoded /\ res.ok) =>
           /\ res.val.crc =
                  checksum_ieee(res.val.chunk_type.bytes \o res.val.data)
           /\ res.val.crc = checksum_ieee(SubSeq(buf, 5, Len(buf) - 4))

\* A chunk was decoded whose length field is not the size of its payload.
C3_Witness ==
    /\ Decoded
    /\ res.ok
    /\ res.val.length # U32Of(Len(res.val.data))
    /\ res.val.crc = checksum_ieee(res.val.chunk_type.bytes \o res.val.data)

\* C4: try_from on a buffer of 0 to 11 bytes returns Err(ChunkTooShort),
\* whatever the bytes are.
C4_MinimumLength ==
    (Decoded /\ Len(buf) <= 11) => res = Err([kind |-> "ChunkTooShort"])

\* An 11-byte buffer with a non-letter among its type bytes was decoded.
C4_Witness ==
    /\ Decoded
    /\ Len(buf) = 11
    /\ \E i \in 5..8 : ~IsLetter(buf[i])
    /\ res = Err([kind |-> "ChunkTooShort"])

\* C5 as claimed: after one bit of a buffer that decoded is flipped in the
\* type-tag or the payload region, try_from fails with InvalidCRC.
C5_TamperIsCrcMismatch ==
    (pc = "redecoded" /\ (FlippedInType \/ FlippedInPayload)) =>
        /\ ~res.ok
        /\ res.err.kind = "InvalidCRC"

\* C5 as amended: after such a flip try_from fails; with
\* ChunkTypeError(InvalidByte(b)) when the flip left the type byte b a
\* non-letter, and with InvalidCRC otherwise.
C5_TamperDetected ==
    (pc = "redecoded" /\ (FlippedInType \/ FlippedInPayload)) =>
        /\ ~res.ok
        /\ IF FlippedInType /\ ~IsLetter(buf[flipped])
           THEN res.err = [kind |-> "ChunkTypeError",
                           source |-> [kind |-> "InvalidByte",
                                       byte |-> buf[flipped]]]
           ELSE res.err.kind = "InvalidCRC"

\* A payload bit was flipped and the decode failed on the CRC.
C5_Witness ==
    /\ pc = "redecoded"
    /\ FlippedInPayload
    /\ ~res.ok
    /\ res.err.kind = "InvalidCRC"

\* C6: as_bytes() of a decoded chunk is the decoded buffer, byte for byte,
\* 12 bytes more than the payload, also when the length field is not the
\* payload's size.
C6_SerializeInverse ==
    pc = "reencoded" =>
        /\ out = buf
        /\ Len(out) = 12 + Len(res.val.data)
        /\ SubSeq(out, 1, 4) = SubSeq(buf, 1, 4)

\* A chunk whose length field is not its payload's size was serialized.
C6_Witness ==
    /\ pc = "reencoded"
    /\ res.val.length # U32Of(Len(res.val.data))
    /\ out = buf

\* C10: on a buffer of n >= 12 bytes try_from returns ChunkTypeError
\* (InvalidByte) if a type byte is no letter, else InvalidCRC(computed,
\* declared) if the CRC-32 of bytes 4..n-4 is not the big-endian u32 of the
\* last 4 bytes, else a chunk with the declared length, the type bytes, the
\* bytes 8..n-4 and the declared crc.  Nothing else rejects.
C10_DecodeOutcome ==
    (Decoded /\ Len(buf) >= 12) =>
        LET n == Len(buf)
            tag == SubSeq(buf, 5, 8)
            declared == BigEndian(SubSeq(buf, n - 3, n))
            computed == checksum_ieee(SubSeq(buf, 5, n - 4))
        IN
        IF ~AllLetters(tag)
        THEN /\ ~res.ok
             /\ res.err.kind = "ChunkTypeError"
             /\ res.err.source.kind = "InvalidByte"
        ELSE IF computed # declared
        THEN res = Err([kind |-> "InvalidCRC", found |-> computed,
                        expected |-> declared])
        ELSE res = Ok([length |-> BigEndian(SubSeq(buf, 1, 4)),
                       chunk_type |-> [bytes |-> tag],
                       data |-> SubSeq(buf, 9, n - 4),
                       crc |-> declared])

\* A buffer decoded although its type is not is_valid() and its length
\* field is not n - 12.
C10_Witness ==
    /\ pc = "decoded"
    /\ res.ok
    /\ ~is_valid(res.val.chunk_type)
    /\ res.val.length # U32Of(Len(buf) - 12)

====
